---- MODULE Spec2Model ----
(***************************************************************************)
(* sourcemap-harvest: the path functions (urlToFilesystemPath,             *)
(* normalizeSourceFilePath, sanitizePath, safePathJoin, matchesFilter) and *)
(* the two extraction passes (extractGeneratedScripts,                     *)
(* extractOriginalSources) of index.js.                                    *)
(*                                                                         *)
(* A JavaScript string is a sequence of lexemes.  A lexeme is a literal    *)
(* piece of text: one of the characters the code looks at ("/", "\\", ".", *)
(* "?", "#"), a scheme with its colon ("webpack:", "http:", ...), or a     *)
(* name ("a", "src", "index.txt", ...).  The string is the concatenation   *)
(* of its lexemes.  No name contains a separator, a dot-only segment or a  *)
(* scheme, so a regular expression of the code matches the string exactly  *)
(* when the corresponding lexeme pattern matches the sequence.             *)
(*                                                                         *)
(* The platform is POSIX: path.sep is "/".                                 *)
(***************************************************************************)
EXTENDS Integers, Sequences, FiniteSets, TLC

\* ------------------------------------------------------------------------
\* Bounds of the model
\* ------------------------------------------------------------------------

\* Longest body (in lexemes) of an enumerated input string.
MaxLen == 3

\* Most script identifiers the browser reports.
MaxScripts == 2

\* Most redirects the network answers one fetchUrl call with.
MaxRedirects == 1

\* The most Debugger.scriptParsed events a run delivers
MaxEvents == 3

\* ------------------------------------------------------------------------
\* JavaScript values that are not strings
\* ------------------------------------------------------------------------

\* undefined: a one-lexeme sequence whose lexeme occurs in no string.
Undefined == << "<undefined>" >>

\* null
Null == << "<null>" >>

\* a truthy value that is not a string (a number, an object) and has no
\* String.prototype.replace
NotAString == << "<number>" >>

\* the empty string
Empty == << >>

IsString(v) == v \notin {Undefined, Null, NotAString}

\* !v  (undefined, null and the empty string are falsy)
Falsy(v) == v \in {Undefined, Null, Empty}

\* ------------------------------------------------------------------------
\* String primitives
\* ------------------------------------------------------------------------

\* s.startsWith(p)
StartsWith(s, p) == Len(s) >= Len(p) /\ SubSeq(s, 1, Len(p)) = p

\* s.slice(n)
Drop(s, n) == SubSeq(s, n + 1, Len(s))

\* s.replace(/^p/, r) for a literal p
ReplacePrefix(s, p, r) == IF StartsWith(s, p) THEN r \o Drop(s, Len(p)) ELSE s

\* s.includes(p)
Includes(s, p) ==
  \E i \in 0 .. (Len(s) - Len(p)) : SubSeq(s, i + 1, i + Len(p)) = p

\* s.replace(/^\/+/, '')
RECURSIVE StripLeadingSlashes(_)
StripLeadingSlashes(s) ==
  IF s # << >> /\ Head(s) = "/" THEN StripLeadingSlashes(Tail(s)) ELSE s

\* s.replace(/[?#].*$/, ''): the string up to its first "?" or "#"
RECURSIVE StripQueryAndFragment(_)
StripQueryAndFragment(s) ==
  IF s = << >> THEN << >>
  ELSE IF Head(s) \in {"?", "#"} THEN << >>
  ELSE << Head(s) >> \o StripQueryAndFragment(Tail(s))

\* s.split(seps): the sequence of segments, empty segments kept;
\* ''.split(...) is [''].
RECURSIVE SplitOn(_, _)
SplitOn(s, seps) ==
  IF s = << >> THEN << << >> >>
  ELSE LET rest == SplitOn(Tail(s), seps) IN
       IF Head(s) \in seps
       THEN << << >> >> \o rest
       ELSE << << Head(s) >> \o Head(rest) >> \o Tail(rest)

\* segs.join(sep)
RECURSIVE JoinWith(_, _)
JoinWith(segs, sep) ==
  IF segs = << >> THEN << >>
  ELSE IF Len(segs) = 1 THEN Head(segs)
  ELSE Head(segs) \o << sep >> \o JoinWith(Tail(segs), sep)

\* The segments "." and ".."
Dot == << "." >>
DotDot == << ".", "." >>

\* ------------------------------------------------------------------------
\* Node's path module (POSIX)
\* ------------------------------------------------------------------------

\* normalizeString(path, allowAboveRoot): the segments of path with "" and
\* "." dropped and ".." resolved; above the root ".." is kept when
\* allowAboveRoot and dropped otherwise.
RECURSIVE NormalizeSegments(_, _, _)
NormalizeSegments(segs, acc, allowAboveRoot) ==
  IF segs = << >> THEN acc
  ELSE LET seg == Head(segs) IN
       IF seg = << >> \/ seg = Dot
       THEN NormalizeSegments(Tail(segs), acc, allowAboveRoot)
       ELSE IF seg = DotDot
       THEN IF acc # << >> /\ acc[Len(acc)] # DotDot
            THEN NormalizeSegments(Tail(segs), SubSeq(acc, 1, Len(acc) - 1),
                                   allowAboveRoot)
            ELSE IF allowAboveRoot
            THEN NormalizeSegments(Tail(segs), Append(acc, DotDot),
                                   allowAboveRoot)
            ELSE NormalizeSegments(Tail(segs), acc, allowAboveRoot)
       ELSE NormalizeSegments(Tail(segs), Append(acc, seg), allowAboveRoot)

\* The working directory of the process (absolute, normalized).
Cwd == << "/", "cwd" >>

\* path.resolve(a, b): the last absolute argument and what follows it,
\* on top of the working directory when none is absolute; zero-length
\* arguments are skipped; the result is absolute, normalized and has no
\* trailing slash.
pathResolve(a, b) ==
  LET joined ==
        IF b # << >> /\ Head(b) = "/" THEN b
        ELSE LET ab == IF b = << >> THEN a
                       ELSE IF a = << >> THEN b
                       ELSE a \o << "/" >> \o b
             IN  IF ab # << >> /\ Head(ab) = "/" THEN ab
                 ELSE IF ab = << >> THEN Cwd
                 ELSE Cwd \o << "/" >> \o ab
      segs == NormalizeSegments(SplitOn(joined, {"/"}), << >>, FALSE)
  IN  << "/" >> \o JoinWith(segs, "/")

\* path.basename(p): the last segment of p, trailing slashes ignored.
RECURSIVE StripTrailingSlashes(_)
StripTrailingSlashes(s) ==
  IF s # << >> /\ s[Len(s)] = "/"
  THEN StripTrailingSlashes(SubSeq(s, 1, Len(s) - 1))
  ELSE s

pathBasename(p) ==
  LET segs == SplitOn(StripTrailingSlashes(p), {"/"}) IN segs[Len(segs)]

\* path.dirname(p) of an absolute normalized path
pathDirname(p) ==
  LET segs == SplitOn(p, {"/"})
      dir  == JoinWith(SubSeq(segs, 1, Len(segs) - 1), "/")
  IN  IF dir = << >> THEN << "/" >> ELSE dir

\* path.join(a, b): path.normalize of the non-empty arguments joined by "/"
pathJoin(a, b) ==
  LET joined == IF a = << >> THEN b
                ELSE IF b = << >> THEN a
                ELSE a \o << "/" >> \o b
      isAbs  == joined # << >> /\ Head(joined) = "/"
      trail  == joined # << >> /\ joined[Len(joined)] = "/"
      segs   == NormalizeSegments(SplitOn(joined, {"/"}), << >>, ~isAbs)
      body   == JoinWith(segs, "/")
  IN  IF joined = << >> THEN Dot
      ELSE IF body = << >>
      THEN (IF isAbs THEN << "/" >> ELSE IF trail THEN << ".", "/" >> ELSE Dot)
      ELSE (IF isAbs THEN << "/" >> ELSE << >>) \o body
           \o (IF trail THEN << "/" >> ELSE << >>)

\* ------------------------------------------------------------------------
\* Configuration (index.js, "Configuration")
\* ------------------------------------------------------------------------

\* const OUTPUT_DIR = 'out'
OUTPUT_DIR == << "out" >>

\* The default file names of the code
AnonymousJs == << "anonymous.js" >>
IndexTxt == << "index.txt" >>

\* The ascent marker of sanitizePath
UpMarker == << "_up_" >>

\* What a function call yields when it throws
Threw == << "<throw>" >>

\* ------------------------------------------------------------------------
\* Utility functions
\* ------------------------------------------------------------------------

\* The scheme prefixes of the code's regular expressions
WebpackScheme == << "webpack:", "/", "/" >>
RollupScheme == << "rollup:", "/", "/" >>
FileScheme == << "file:", "/", "/" >>
HttpScheme == << "http:", "/", "/" >>
HttpsScheme == << "https:", "/", "/" >>

\* /^vm:\/\//i matches the scheme in either case
VmSchemes == { << v, "/", "/" >> : v \in {"vm:", "VM:", "Vm:", "vM:"} }

\* s.replace(/^https?:\/\//, ''): one scheme is removed, once
StripHttpScheme(s) ==
  IF StartsWith(s, HttpsScheme) \/ StartsWith(s, HttpScheme)
  THEN Drop(s, 3)
  ELSE s

\* s.replace(/^vm:\/\//i, 'vm/')
ReplaceVmScheme(s) ==
  IF \E p \in VmSchemes : StartsWith(s, p)
  THEN << "vm", "/" >> \o Drop(s, 3)
  ELSE s

\* urlToFilesystemPath without its last line, the fallback for a result the
\* replacements left empty
urlToFilesystemPathNoFallback(url) ==
  IF Falsy(url) THEN AnonymousJs
  ELSE StripQueryAndFragment(
         StripHttpScheme(
           ReplaceVmScheme(
             ReplacePrefix(
               ReplacePrefix(
                 ReplacePrefix(url, WebpackScheme, << "webpack", "/" >>),
                 RollupScheme, << "rollup", "/" >>),
               FileScheme, << "file", "/" >>))))

\* urlToFilesystemPath(url): the chain of replacements, each applied to the
\* result of the one before, then the fallback for an empty result.
urlToFilesystemPath(url) ==
  IF Falsy(url) THEN AnonymousJs
  ELSE LET s1 == ReplacePrefix(url, WebpackScheme, << "webpack", "/" >>)
           s2 == ReplacePrefix(s1, RollupScheme, << "rollup", "/" >>)
           s3 == ReplacePrefix(s2, FileScheme, << "file", "/" >>)
           s4 == ReplaceVmScheme(s3)
           s5 == StripHttpScheme(s4)
           s6 == StripQueryAndFragment(s5)
       IN  IF s6 = << >> THEN AnonymousJs ELSE s6

\* StripPrefixes without its last replacement, the leading slashes
StripPrefixesKeepSlashes(sourceFilePath) ==
  StripHttpScheme(
    ReplacePrefix(
      ReplacePrefix(
        ReplacePrefix(
          ReplacePrefix(sourceFilePath, WebpackScheme, << "webpack", "/" >>),
          RollupScheme, << "rollup", "/" >>),
        FileScheme, << "file", "/" >>),
      << ".", "/" >>, << >>))

\* The path of normalizeSourceFilePath before the filename is ensured:
\* prefix replacement, one leading "./" stripped, the http(s) scheme
\* stripped, leading slashes stripped.
StripPrefixes(sourceFilePath) ==
  LET s1 == ReplacePrefix(sourceFilePath, WebpackScheme, << "webpack", "/" >>)
      s2 == ReplacePrefix(s1, RollupScheme, << "rollup", "/" >>)
      s3 == ReplacePrefix(s2, FileScheme, << "file", "/" >>)
      s4 == ReplacePrefix(s3, << ".", "/" >>, << >>)
      s5 == StripHttpScheme(s4)
  IN  StripLeadingSlashes(s5)

\* normalizeSourceFilePath(sourceFilePath); a value without .replace throws
normalizeSourceFilePath(sourceFilePath) ==
  IF ~IsString(sourceFilePath) THEN Threw
  ELSE LET normalized == StripPrefixes(sourceFilePath) IN
       IF pathBasename(normalized) = << >>
       THEN pathJoin(normalized, IndexTxt)
       ELSE normalized

\* The loop of sanitizePath with a ".." that has nothing to cancel dropped
\* instead of replaced by the marker
RECURSIVE SanitizePartsNoMarker(_, _)
SanitizePartsNoMarker(parts, result) ==
  IF parts = << >> THEN result
  ELSE LET part == Head(parts) IN
       IF part = DotDot
       THEN IF Len(result) > 0
            THEN SanitizePartsNoMarker(Tail(parts), SubSeq(result, 1, Len(result) - 1))
            ELSE SanitizePartsNoMarker(Tail(parts), result)
       ELSE IF part # Dot /\ part # << >>
       THEN SanitizePartsNoMarker(Tail(parts), Append(result, part))
       ELSE SanitizePartsNoMarker(Tail(parts), result)

\* The loop of sanitizePath over the parts, result being the accumulator
RECURSIVE SanitizeParts(_, _)
SanitizeParts(parts, result) ==
  IF parts = << >> THEN result
  ELSE LET part == Head(parts) IN
       IF part = DotDot
       THEN IF Len(result) > 0 /\ result[Len(result)] # DotDot
            THEN SanitizeParts(Tail(parts), SubSeq(result, 1, Len(result) - 1))
            ELSE SanitizeParts(Tail(parts), Append(result, UpMarker))
       ELSE IF part # Dot /\ part # << >>
       THEN SanitizeParts(Tail(parts), Append(result, part))
       ELSE SanitizeParts(Tail(parts), result)

\* The segments sanitizePath joins
SanitizedSegments(relPath) ==
  IF Falsy(relPath) THEN << >>
  ELSE SanitizeParts(SplitOn(StripLeadingSlashes(relPath), {"/", "\\"}), << >>)

\* sanitizePath(relPath)
sanitizePath(relPath) == JoinWith(SanitizedSegments(relPath), "/")

\* safePathJoin with neither the sanitization nor the check: path.resolve of
\* the raw relative path
safePathJoinUnchecked(baseDir, relPath) ==
  pathResolve(pathResolve(baseDir, << >>), IF Falsy(relPath) THEN << >> ELSE relPath)

\* safePathJoin(baseDir, relPath): the resolved path, or Threw
safePathJoin(baseDir, relPath) ==
  LET baseAbs        == pathResolve(baseDir, << >>)
      sanitized      == sanitizePath(relPath)
      full           == pathResolve(baseAbs, sanitized)
      baseNormalized == baseAbs \o << "/" >>
      fullNormalized == full \o << "/" >>
  IN  IF ~StartsWith(fullNormalized, baseNormalized) THEN Threw ELSE full

\* matchesFilter(filePath) under the filter list filters
matchesFilterIn(filters, filePath) ==
  Len(filters) = 0
  \/ \E k \in 1 .. Len(filters) :
       Includes(IF Falsy(filePath) THEN << >> ELSE filePath, filters[k])

\* ------------------------------------------------------------------------
\* URLs (the WHATWG URL class of Node, on the strings of the model)
\* ------------------------------------------------------------------------

\* A lexeme that is a scheme with its colon
SchemeLexemes ==
  { "http:", "https:", "data:", "file:", "webpack:", "rollup:",
    "vm:", "VM:", "Vm:", "vM:", "HTTP:", "HTTPS:", "DATA:" }

\* The schemes whose URLs have a host and a path the code resolves against
HttpSchemeLexemes == { "http:", "https:", "HTTP:", "HTTPS:" }

\* The parser lower-cases the scheme
LowerScheme(x) ==
  IF x = "HTTP:" THEN "http:"
  ELSE IF x = "HTTPS:" THEN "https:"
  ELSE IF x = "DATA:" THEN "data:"
  ELSE x

SlashLexemes == { "/", "\\" }

RECURSIVE StripLeadingSlashLexemes(_)
StripLeadingSlashLexemes(s) ==
  IF s # << >> /\ Head(s) \in SlashLexemes
  THEN StripLeadingSlashLexemes(Tail(s))
  ELSE s

\* The part of s before its first "?" or "#", and the rest
BeforeQuery(s) == StripQueryAndFragment(s)
FromQuery(s) == Drop(s, Len(BeforeQuery(s)))

\* The part of s before its first "#"
RECURSIVE BeforeFragment(_)
BeforeFragment(s) ==
  IF s = << >> THEN << >>
  ELSE IF Head(s) = "#" THEN << >>
  ELSE << Head(s) >> \o BeforeFragment(Tail(s))

\* The path of an http(s) URL: "\" reads as "/", dot segments are removed,
\* ".." never climbs above the root, the path begins with "/", and a path
\* that ends in a separator or a dot segment ends in "/".
UrlPath(p) ==
  LET segs  == SplitOn(p, SlashLexemes)
      last  == segs[Len(segs)]
      kept  == NormalizeSegments(segs, << >>, FALSE)
      trail == Len(kept) > 0 /\ last \in { << >>, Dot, DotDot }
  IN  << "/" >> \o JoinWith(kept, "/") \o (IF trail THEN << "/" >> ELSE << >>)

\* new URL(s).toString() for a string that begins with a scheme: Threw
\* when an http(s) URL has no host.
ParseAbsoluteUrl(s) ==
  IF Head(s) \in HttpSchemeLexemes
  THEN LET rest == StripLeadingSlashLexemes(Tail(s)) IN
       IF rest = << >> \/ Head(rest) \in { "?", "#", ".", "," }
       THEN Threw
       ELSE << LowerScheme(Head(s)), "/", "/", Head(rest) >>
            \o UrlPath(BeforeQuery(Tail(rest))) \o FromQuery(Tail(rest))
  ELSE << LowerScheme(Head(s)) >> \o Tail(s)

IsHttpUrl(u) == u # << >> /\ Head(u) \in { "http:", "https:" }

\* The directory of the path of a parsed http(s) URL: the path up to and
\* including its last "/".
RECURSIVE UpToLastSlash(_)
UpToLastSlash(p) ==
  IF p = << >> THEN << >>
  ELSE IF p[Len(p)] = "/" THEN p
  ELSE UpToLastSlash(SubSeq(p, 1, Len(p) - 1))

\* String(v)
JSString(v) ==
  IF v = NotAString THEN << "5" >>
  ELSE IF v = Null THEN << "null" >>
  ELSE IF v = Undefined THEN << "undefined" >>
  ELSE v

\* new URL(input, base).toString() for a string input: base is a parsed URL, or Null when the
\* constructor has one argument.  Threw when the input is relative and
\* there is no base, or the base has no hierarchy (data:), or the host is
\* missing.
newURLString(input, base) ==
  IF input # << >> /\ Head(input) \in SchemeLexemes
  THEN ParseAbsoluteUrl(input)
  ELSE IF base = Null \/ ~IsHttpUrl(base) THEN Threw
  ELSE LET origin   == SubSeq(base, 1, 4)
           basePath == BeforeQuery(Drop(base, 4))
       IN  IF input = << >> THEN BeforeFragment(base)
           ELSE IF Len(input) >= 2 /\ input[1] \in SlashLexemes
                   /\ input[2] \in SlashLexemes
           THEN ParseAbsoluteUrl(<< Head(base) >> \o input)
           ELSE IF Head(input) \in SlashLexemes
           THEN origin \o UrlPath(BeforeQuery(input)) \o FromQuery(input)
           ELSE IF Head(input) = "?"
           THEN origin \o basePath \o input
           ELSE IF Head(input) = "#"
           THEN BeforeFragment(base) \o input
           ELSE origin
                \o UrlPath(UpToLastSlash(basePath) \o BeforeQuery(input))
                \o FromQuery(input)

\* new URL(input, base).toString(): the constructor converts its first
\* argument to a string.
newURL(input, base) == newURLString(JSString(input), base)

\* ------------------------------------------------------------------------
\* Sourcemap documents and their JSON text
\* ------------------------------------------------------------------------

\* The entries of sources the model draws documents from: a path the
\* default filter keeps, a path that climbs and that the default filter
\* drops, a path that names the directory of the first, and a number.
SourceEntries ==
  { << "src", "/", "util.js" >>, << ".", ".", "/", "lib", "/", "b.js" >>,
    << "src" >>, NotAString }

\* The entries of sourcesContent: null, a text, the empty text.
ContentEntries == { Null, << "A" >>, << >> }

SeqsUpTo(S, n) == UNION { [1 .. k -> S] : k \in 0 .. n }

\* The values JSON.parse returns in the model: null, or an object with the
\* two arrays.
JsonNull == [ isNull |-> TRUE, sources |-> << >>, sourcesContent |-> << >> ]

\* A document with the two arrays
Document(ss, cs) == [ isNull |-> FALSE, sources |-> ss, sourcesContent |-> cs ]

\* The documents with one entry in sources: every entry with its content
\* embedded, and a path and a number with every other content.
OneSourceDocuments ==
  { Document(<< s >>, << << "A" >> >>) : s \in SourceEntries }
    \cup { Document(<< << "src", "/", "util.js" >> >>, cs) :
              cs \in SeqsUpTo(ContentEntries, 1) }
    \cup { Document(<< NotAString >>, << >>) }

\* The documents with two entries: a file and then its directory, a
\* directory and then a file inside it, one embedded and one remote entry,
\* the same destination twice, and arrays of unequal lengths.
TwoSourceDocuments ==
  LET a  == << "src", "/", "util.js" >>
      b  == << ".", ".", "/", "lib", "/", "b.js" >>
      d  == << "src" >>
      cA == << "A" >>
  IN  { Document(<< a, d >>, << cA, cA >>),
        Document(<< d, a >>, << cA, cA >>),
        Document(<< b, a >>, << cA, Null >>),
        Document(<< a, a >>, << cA, Null >>),
        Document(<< a, b >>, << cA >>),
        Document(<< a >>, << cA, cA >>) }

JsonObjects ==
  { Document(<< >>, << >>) } \cup OneSourceDocuments \cup TwoSourceDocuments

\* JSON.stringify of one array element
JsonValueText(v) ==
  IF v = Null THEN << "null" >>
  ELSE IF v = NotAString THEN << "5" >>
  ELSE << "\"" >> \o v \o << "\"" >>

RECURSIVE JsonArrayText(_)
JsonArrayText(vs) ==
  IF vs = << >> THEN << >>
  ELSE JsonValueText(Head(vs))
       \o (IF Len(vs) > 1 THEN << "," >> ELSE << >>)
       \o JsonArrayText(Tail(vs))

\* JSON.stringify(value)
JsonText(value) ==
  IF value.isNull THEN << "null" >>
  ELSE << "{", "sources", ":", "[" >> \o JsonArrayText(value.sources)
       \o << "]", ",", "sourcesContent", ":", "[" >>
       \o JsonArrayText(value.sourcesContent) \o << "]", "}" >>

JsonValues == JsonObjects \cup { JsonNull }

\* JSON.parse, the string that begins after an opening quote: its lexemes
\* up to the closing quote, and what follows it.
RECURSIVE ReadJsonString(_, _)
ReadJsonString(s, acc) ==
  IF s = << >> THEN [ ok |-> FALSE, value |-> << >>, rest |-> << >> ]
  ELSE IF Head(s) = "\"" THEN [ ok |-> TRUE, value |-> acc, rest |-> Tail(s) ]
  ELSE ReadJsonString(Tail(s), Append(acc, Head(s)))

\* JSON.parse, the elements of an array after its "[": expect is "first"
\* (a value or "]"), "value" (after a comma) or "next" (a comma or "]").
RECURSIVE ReadJsonArray(_, _, _)
ReadJsonArray(s, acc, expect) ==
  LET fail == [ ok |-> FALSE, value |-> << >>, rest |-> << >> ] IN
  IF s = << >> THEN fail
  ELSE IF expect = "next"
  THEN IF Head(s) = "]" THEN [ ok |-> TRUE, value |-> acc, rest |-> Tail(s) ]
       ELSE IF Head(s) = "," THEN ReadJsonArray(Tail(s), acc, "value")
       ELSE fail
  ELSE IF Head(s) = "]"
  THEN IF expect = "first"
       THEN [ ok |-> TRUE, value |-> acc, rest |-> Tail(s) ]
       ELSE fail
  ELSE IF Head(s) = "null" THEN ReadJsonArray(Tail(s), Append(acc, Null), "next")
  ELSE IF Head(s) = "5"
  THEN ReadJsonArray(Tail(s), Append(acc, NotAString), "next")
  ELSE IF Head(s) = "\""
  THEN LET str == ReadJsonString(Tail(s), << >>) IN
       IF str.ok THEN ReadJsonArray(str.rest, Append(acc, str.value), "next")
       ELSE fail
  ELSE fail

\* JSON.parse(text): ok is FALSE when it throws.  The texts it accepts are
\* null, {} and an object with the arrays sources and sourcesContent.
JsonRead(text) ==
  LET fail == [ ok |-> FALSE, value |-> JsonNull ]
      head1 == << "{", "sources", ":", "[" >>
      head2 == << ",", "sourcesContent", ":", "[" >>
  IN  IF text = << "null" >> THEN [ ok |-> TRUE, value |-> JsonNull ]
      ELSE IF text = << "{", "}" >>
      THEN [ ok |-> TRUE,
             value |-> [ isNull |-> FALSE, sources |-> << >>,
                         sourcesContent |-> << >> ] ]
      ELSE IF ~StartsWith(text, head1) THEN fail
      ELSE LET a1 == ReadJsonArray(Drop(text, Len(head1)), << >>, "first") IN
           IF ~a1.ok \/ ~StartsWith(a1.rest, head2) THEN fail
           ELSE LET a2 == ReadJsonArray(Drop(a1.rest, Len(head2)), << >>, "first")
                IN  IF ~a2.ok \/ a2.rest # << "}" >> THEN fail
                    ELSE [ ok |-> TRUE,
                           value |-> [ isNull |-> FALSE, sources |-> a1.value,
                                       sourcesContent |-> a2.value ] ]

JsonParseThrows(text) == ~JsonRead(text).ok

JsonParse(text) == JsonRead(text).value

\* ------------------------------------------------------------------------
\* Network & data fetching
\* ------------------------------------------------------------------------

\* decodeDataUrl(dataUrl): /^data:([^,]*?)(;base64)?,(.*)$/i.  The text
\* after the first comma, or Null without a comma.  A payload marked
\* ";base64" decodes to the text it wraps ("b64(", text, ")") and to
\* other bytes when it is not of that form.
RECURSIVE AfterFirstComma(_)
AfterFirstComma(s) ==
  IF s = << >> THEN Null
  ELSE IF Head(s) = "," THEN Tail(s)
  ELSE AfterFirstComma(Tail(s))

RECURSIVE BeforeFirstComma(_)
BeforeFirstComma(s) ==
  IF s = << >> \/ Head(s) = "," THEN << >>
  ELSE << Head(s) >> \o BeforeFirstComma(Tail(s))

Base64Decode(payload) ==
  IF Len(payload) >= 2 /\ Head(payload) = "b64(" /\ payload[Len(payload)] = ")"
  THEN SubSeq(payload, 2, Len(payload) - 1)
  ELSE << "<bytes>" >>

decodeDataUrl(dataUrl) ==
  IF ~(dataUrl # << >> /\ Head(dataUrl) \in { "data:", "DATA:" }) THEN Null
  ELSE LET payload == AfterFirstComma(Tail(dataUrl))
           meta    == BeforeFirstComma(Tail(dataUrl))
           isBase64 == meta # << >> /\ meta[Len(meta)] \in { ";base64", ";BASE64" }
       IN  IF payload = Null THEN Null
           ELSE IF isBase64 THEN Base64Decode(payload)
           ELSE payload

\* What the synchronous part of fetchUrl(url) decides: the promise is
\* resolved with a buffer (a data: URL), rejected (an invalid data: URL, a
\* string new URL rejects, a protocol https.get refuses), or a request is
\* on its way.
FetchStart(url) ==
  IF url # << >> /\ Head(url) = "data:"
  THEN LET buffer == decodeDataUrl(url) IN
       IF buffer = Null THEN [ state |-> "rejected", value |-> << >> ]
       ELSE [ state |-> "resolved", value |-> buffer ]
  ELSE LET urlObj == newURL(url, Null) IN
       IF urlObj = Threw THEN [ state |-> "rejected", value |-> << >> ]
       ELSE IF ~IsHttpUrl(urlObj) THEN [ state |-> "rejected", value |-> << >> ]
       ELSE [ state |-> "pending", value |-> urlObj ]

\* resolveSourceMapUrl(mapRef, scriptUrl); Null for null.
\* /^https?:|^data:|^file:|^webpack:\/\//i
LooksAbsolute(mapRef) ==
  /\ mapRef # << >>
  /\ \/ Head(mapRef) \in { "http:", "https:", "HTTP:", "HTTPS:", "data:",
                           "DATA:", "file:" }
     \/ StartsWith(mapRef, WebpackScheme)

\* scriptUrl.startsWith('http'): the first lexeme begins with these letters
BeginsWithHttpLetters(x) == x \in { "http:", "https:", "httpdocs" }

resolveSourceMapUrl(mapRef, scriptUrl) ==
  IF LooksAbsolute(mapRef) THEN mapRef
  ELSE IF scriptUrl # << >> /\ BeginsWithHttpLetters(Head(scriptUrl))
  THEN LET u == newURL(mapRef, newURL(scriptUrl, Null)) IN
       IF newURL(scriptUrl, Null) = Threw \/ u = Threw THEN Null ELSE u
  ELSE mapRef

\* ------------------------------------------------------------------------
\* The filesystem
\* ------------------------------------------------------------------------

\* An absolute path and the directories above it, up to the root
RECURSIVE SelfAndAncestors(_)
SelfAndAncestors(p) ==
  IF p = << "/" >> THEN { p }
  ELSE { p } \cup SelfAndAncestors(pathDirname(p))

\* ------------------------------------------------------------------------
\* State
\* ------------------------------------------------------------------------

VARIABLES
  fn,    \* the utility function that was called ("none" before the call)
  arg,   \* the string it was called with
  base,  \* the base directory it was called with (safePathJoin only)
  ret,   \* what it returned
  PATH_FILTERS,        \* the configured filter list
  scripts,             \* the registry, in insertion order
  events,              \* the Debugger.scriptParsed events delivered so far
  observed,            \* the latest of them
  pc,                  \* where main is
  gi,                  \* extractGeneratedScripts: position of its iterator
  scriptPath,          \* ... the path of the script it awaits the body of
  oi,                  \* extractOriginalSources: position of its iterator
  sourceMapUrl,        \* ... the resolved URL of the script's sourcemap
  sourceMapBaseUrl,    \* ... new URL(sourceMapUrl), or Null
  sources,             \* ... sourceMap.sources || []
  sourcesContent,      \* ... sourceMap.sourcesContent || []
  i,                   \* ... the index of the inner loop (from 1)
  request,             \* the URL of the request in flight, << >> when none
  redirects,           \* the redirects the fetchUrl call in flight followed
  savedGenerated,      \* savedCount of extractGeneratedScripts
  savedCount,          \* savedCount of extractOriginalSources
  skippedNoMapRef,
  skippedFetchFailed,
  skippedInvalid,
  files,               \* the files on disk: path -> content
  dirs                 \* the directories on disk

pathVars == << fn, arg, base, ret >>

counters ==
  << savedCount, skippedNoMapRef, skippedFetchFailed, skippedInvalid >>

docVars == << sourceMapUrl, sourceMapBaseUrl, sources, sourcesContent, i >>

fsVars == << files, dirs >>

runVars ==
  << PATH_FILTERS, scripts, events, observed, pc, gi, scriptPath, oi, docVars, request,
     redirects, savedGenerated, counters, fsVars >>

vars == << pathVars, runVars >>

\* matchesFilter(filePath)
matchesFilter(filePath) == matchesFilterIn(PATH_FILTERS, filePath)

\* ------------------------------------------------------------------------
\* Calls of the utility functions on enumerated strings
\* ------------------------------------------------------------------------

\* The lexemes of an enumerated body
BodyLexemes == {"/", "\\", ".", "a", "?"}

Bodies == UNION { [1 .. n -> BodyLexemes] : n \in 0 .. MaxLen }

\* What an enumerated string may begin with
Prefixes ==
  { << >>, WebpackScheme, RollupScheme, FileScheme, HttpScheme, HttpsScheme,
    << "vm:", "/", "/" >>, << "VM:", "/", "/" >>, << ".", "/" >>, << "/" >>,
    << ".", ".", "/" >> }

\* ... and what may follow that
NestedPrefixes ==
  { << >>, WebpackScheme, HttpScheme, << ".", "/" >>, << ".", ".", "/" >> }

\* The strings the specification and the code's comments use as examples
EtcPasswd ==
  << ".", ".", "/", ".", ".", "/", ".", ".", "/", "etc", "/", "passwd" >>
WebpackSrcIndex ==
  << "webpack:", "/", "/", ".", "/", "src", "/", "index.js" >>
HttpsExampleApp ==
  << "https:", "/", "/", "example.com", "/", "src", "/", "app.js" >>
ExampleLibUtil == << "example.com", "/", "lib", "/", "util.js" >>
ExampleSrcUtil == << "example.com", "/", "src", "/", "util.js" >>
SrcUtil == << "src", "/", "util.js" >>
SrcDir == << "src", "/" >>

Examples ==
  { EtcPasswd, WebpackSrcIndex, HttpsExampleApp, ExampleLibUtil,
    ExampleSrcUtil, SrcUtil, SrcDir, << "https:", "/", "/" >>, << "#", "top" >>,
    << "?", "x=1" >>, << "a", "/", ".", "." >> }

Inputs ==
  { p \o q \o b : p \in Prefixes, q \in NestedPrefixes, b \in Bodies }
    \cup Examples

\* The base directories safePathJoin is called with
BaseDirs == { OUTPUT_DIR, << "/", "srv", "/", "out" >>, << "/" >> }

\* No Debugger.scriptParsed event was delivered yet.
NoEvent ==
  [ scriptId |-> 0, url |-> Undefined, sourceURL |-> Undefined,
    sourceMapURL |-> Undefined ]

\* The registry is empty and main has not started.
NotRunning ==
  /\ PATH_FILTERS = << << "/", "src", "/" >> >>
  /\ scripts = << >>
  /\ events = 0
  /\ observed = NoEvent
  /\ pc = "off"
  /\ gi = 0 /\ scriptPath = << >> /\ oi = 0 /\ i = 0
  /\ sourceMapUrl = << >> /\ sourceMapBaseUrl = Null
  /\ sources = << >> /\ sourcesContent = << >>
  /\ request = << >> /\ redirects = 0
  /\ savedGenerated = 0
  /\ savedCount = 0 /\ skippedNoMapRef = 0
  /\ skippedFetchFailed = 0 /\ skippedInvalid = 0
  /\ files = << >> /\ dirs = { }

InitPath ==
  /\ fn = "none"
  /\ arg \in Inputs \cup {Undefined}
  /\ base = << >>
  /\ ret = << >>
  /\ NotRunning

CallUrlToFilesystemPath ==
  /\ pc = "off"
  /\ fn = "none"
  /\ fn' = "urlToFilesystemPath"
  /\ ret' = urlToFilesystemPath(arg)
  /\ UNCHANGED << arg, base, runVars >>

CallNormalizeSourceFilePath ==
  /\ pc = "off"
  /\ fn = "none"
  /\ fn' = "normalizeSourceFilePath"
  /\ ret' = normalizeSourceFilePath(arg)
  /\ UNCHANGED << arg, base, runVars >>

CallSanitizePath ==
  /\ pc = "off"
  /\ fn = "none"
  /\ fn' = "sanitizePath"
  /\ ret' = sanitizePath(arg)
  /\ UNCHANGED << arg, base, runVars >>

CallSafePathJoin ==
  /\ pc = "off"
  /\ fn = "none"
  /\ \E b \in BaseDirs :
       /\ base' = b
       /\ ret' = safePathJoin(b, arg)
  /\ fn' = "safePathJoin"
  /\ UNCHANGED << arg, runVars >>

NextPath ==
  \/ CallUrlToFilesystemPath
  \/ CallNormalizeSourceFilePath
  \/ CallSanitizePath
  \/ CallSafePathJoin

SpecPath == InitPath /\ [][NextPath]_vars

\* The sourceMappingURL values resolveSourceMapUrl is called with
MapRefs ==
  { << "app.js.map" >>, << ".", ".", "/", "maps", "/", "app.js.map" >>,
    << "/", "maps", "/", "app.js.map" >>, << "/", "/" >>,
    << "https:", "/", "/", "maps.test", "/", "app.js.map" >>,
    << "HTTP:", "/", "/", "maps.test", "/", "app.js.map" >>,
    << "data:", "application/json", ",", "{", "}" >>,
    << "file:", "/", "/", "/", "srv", "/", "app.js.map" >>,
    WebpackScheme \o << "maps", "/", "app.js.map" >> }

\* ... and the script URLs: none, http(s) URLs, a file: URL, and names that
\* are not URLs
ScriptUrls ==
  { << >>, << "https:", "/", "/", "cdn.test", "/", "src", "/", "app.js" >>,
    << "http:", "/", "/", "cdn.test", "/", "app.js" >>,
    << "file:", "/", "/", "/", "srv", "/", "app.js" >>, << "vm.js" >>,
    << "httpdocs", "/", "app.js" >> }

InitResolve ==
  /\ fn = "none"
  /\ arg \in MapRefs
  /\ base \in ScriptUrls
  /\ ret = << >>
  /\ NotRunning

CallResolveSourceMapUrl ==
  /\ pc = "off"
  /\ fn = "none"
  /\ fn' = "resolveSourceMapUrl"
  /\ ret' = resolveSourceMapUrl(arg, base)
  /\ UNCHANGED << arg, base, runVars >>

SpecResolve == InitResolve /\ [][CallResolveSourceMapUrl]_vars

\* The URLs fetchUrl is called with: http(s) URLs, strings new URL
\* rejects, data: URLs with and without a payload, a file: URL
FetchUrls ==
  { << "https:", "/", "/", "cdn.test", "/", "app.js.map" >>,
    << "http:", "/", "/", "cdn.test", "/", "maps", "/", "app.js.map" >>,
    << "app.js.map" >>, << "https:", "/", "/" >>,
    << "data:", "application/json", ",", "{", "}" >>,
    << "data:", "application/json" >>,
    << "file:", "/", "/", "/", "srv", "/", "app.js.map" >> }

\* res.statusCode
Statuses == { 200, 204, 301, 302, 304, 404, 500 }

\* res.headers.location: missing, empty, paths, another host, and values
\* new URL rejects
LocationHeaders ==
  { Undefined, << >>, << "/", "moved" >>, << "moved" >>,
    << "https:", "/", "/", "other.test", "/", "moved" >>, << "/", "/" >> }

\* fetchUrl, the response callback of the request for url (a parsed URL):
\* the promise is resolved with the body, rejected, resolved with the
\* promise of the fetch of value, or the callback throws.
OnResponse(url, statusCode, location) ==
  IF statusCode >= 300 /\ statusCode < 400 /\ ~Falsy(location)
  THEN LET target == newURL(location, url) IN
       IF target = Threw THEN [ outcome |-> "throws", value |-> << >> ]
       ELSE [ outcome |-> "follows", value |-> target ]
  ELSE IF statusCode # 200 THEN [ outcome |-> "rejected", value |-> << >> ]
  ELSE [ outcome |-> "resolved", value |-> << "<body>" >> ]

InitFetch ==
  /\ fn = "none"
  /\ arg \in FetchUrls
  /\ base \in LocationHeaders
  /\ ret = << >>
  /\ NotRunning

\* fetchUrl(arg) up to the first response, whose Location header is base;
\* statusCode 0 stands for no response.
CallFetchUrl ==
  /\ pc = "off"
  /\ fn = "none"
  /\ fn' = "fetchUrl"
  /\ LET start == FetchStart(arg) IN
     IF start.state # "pending"
     THEN ret' = [ statusCode |-> 0, outcome |-> start.state, value |-> start.value ]
     ELSE \E statusCode \in Statuses :
            LET response == OnResponse(start.value, statusCode, base) IN
            ret' = [ statusCode |-> statusCode, outcome |-> response.outcome,
                     value |-> response.value ]
  /\ UNCHANGED << arg, base, runVars >>

\* fetchUrl(arg): the request emits 'error'.
FetchUrlError ==
  /\ pc = "off"
  /\ fn = "none"
  /\ FetchStart(arg).state = "pending"
  /\ fn' = "fetchUrl"
  /\ ret' = [ statusCode |-> 0, outcome |-> "rejected", value |-> << >> ]
  /\ UNCHANGED << arg, base, runVars >>

NextFetch == CallFetchUrl \/ FetchUrlError

SpecFetch == InitFetch /\ [][NextFetch]_vars

\* ------------------------------------------------------------------------
\* The run: main, the script registry and the two extraction passes
\* ------------------------------------------------------------------------

ScriptIds == 1 .. MaxScripts

\* The URLs of the run
AppJsUrl == << "https:", "/", "/", "cdn.test", "/", "src", "/", "app.js" >>

\* A sourcemap in a data: URL: one source with its content embedded, and
\* one named by its URL, without content
DataMapUrl ==
  << "data:", "application/json", "," >>
    \o JsonText([ isNull |-> FALSE,
                  sources |-> << << "src", "/", "util.js" >>,
                                 << "https:", "/", "/", "cdn.test", "/", "src",
                                    "/", "util.js" >> >>,
                  sourcesContent |-> << << "A" >> >> ])

\* What a Debugger.scriptParsed event carries besides the scriptId:
\* url, sourceURL, sourceMapURL (Undefined for a missing field).
EventKinds ==
  { << AppJsUrl, Undefined, << "app.js.map" >> >>,
    << << >>, Undefined, Undefined >>,
    << << >>, << "vm.js" >>, DataMapUrl >>,
    << AppJsUrl, Undefined, << "/", "/" >> >> }

Events ==
  { [ scriptId |-> id, url |-> k[1], sourceURL |-> k[2], sourceMapURL |-> k[3] ] :
      id \in ScriptIds, k \in EventKinds }

\* The filter lists a run is configured with
FilterLists == { << >>, << << "/", "src", "/" >> >> }

\* What the server sends as the body of a 200 response
MapBodies == { JsonText(v) : v \in JsonValues } \cup { << "B" >> }
SourceBodies == { << "B" >> }

\* The Location headers of the redirects the server sends
Locations == { << "/", "moved" >> }

\* What Debugger.getScriptSource resolves with
ScriptSources == { << "G" >>, Undefined }

\* a || b
Or(a, b) == IF Falsy(a) THEN b ELSE a

\* A registry in which a key that is set again keeps its first record
MapSetKeepFirst(map, id, value) ==
  IF \E k \in 1 .. Len(map) : map[k].scriptId = id
  THEN map
  ELSE Append(map, value)

\* A registry in which a key that is set again moves to the end
MapSetMoveToEnd(map, id, value) ==
  Append(SelectSeq(map, LAMBDA record : record.scriptId # id), value)

\* map.set(key, value) on the registry: a known key keeps its place.
MapSet(map, id, value) ==
  IF \E k \in 1 .. Len(map) : map[k].scriptId = id
  THEN [ k \in 1 .. Len(map) |->
           IF map[k].scriptId = id THEN value ELSE map[k] ]
  ELSE Append(map, value)

\* f with key k bound to v
Put(f, k, v) == [ x \in DOMAIN f \cup { k } |-> IF x = k THEN v ELSE f[x] ]

\* A write that keeps the content of a file that is already there
WriteFileKeepExisting(destPath, content) ==
  LET dir        == pathDirname(destPath)
      mkdirFails == \E a \in SelfAndAncestors(dir) : a \in DOMAIN files
      dirs1      == IF mkdirFails THEN dirs ELSE dirs \cup SelfAndAncestors(dir)
      threw      == mkdirFails \/ destPath \in dirs1
  IN  [ threw |-> threw,
        dirs  |-> dirs1,
        files |-> IF threw \/ destPath \in DOMAIN files THEN files
                  ELSE Put(files, destPath, content) ]

\* ensureDir(path.dirname(destPath)); fs.writeFileSync(destPath, content):
\* mkdir fails on a path through a file, the write fails on a directory.
\* The directories mkdir made stay when the write fails.
WriteFile(destPath, content) ==
  LET dir        == pathDirname(destPath)
      mkdirFails == \E a \in SelfAndAncestors(dir) : a \in DOMAIN files
      dirs1      == IF mkdirFails THEN dirs ELSE dirs \cup SelfAndAncestors(dir)
      threw      == mkdirFails \/ destPath \in dirs1
  IN  [ threw |-> threw,
        dirs  |-> dirs1,
        files |-> IF threw THEN files ELSE Put(files, destPath, content) ]

\* Main is suspended on an await: the event loop can run other callbacks.
Suspended ==
  pc \in { "processUrl", "getScriptSource", "fetchSourceMap", "fetchSource" }

Init ==
  /\ fn = "none" /\ arg = << >> /\ base = << >> /\ ret = << >>
  /\ PATH_FILTERS \in FilterLists
  /\ scripts = << >>
  /\ events = 0
  /\ observed = NoEvent
  /\ pc = "processUrl"
  /\ gi = 0 /\ scriptPath = << >> /\ oi = 0 /\ i = 0
  /\ sourceMapUrl = << >> /\ sourceMapBaseUrl = Null
  /\ sources = << >> /\ sourcesContent = << >>
  /\ request = << >> /\ redirects = 0
  /\ savedGenerated = 0
  /\ savedCount = 0 /\ skippedNoMapRef = 0
  /\ skippedFetchFailed = 0 /\ skippedInvalid = 0
  /\ files = << >> /\ dirs = { }

\* What neither pass changes
config == << pathVars, PATH_FILTERS >>

\* What only the event handler changes
registry == << scripts, events, observed >>

\* What extractOriginalSources keeps of extractGeneratedScripts
generatedVars == << gi, scriptPath, savedGenerated >>

\* cdpClient.on('Debugger.scriptParsed', ...)
ScriptParsed ==
  /\ Suspended
  /\ events < MaxEvents
  /\ events' = events + 1
  /\ \E event \in Events :
       /\ observed' = event
       /\ scripts' = MapSet(scripts, event.scriptId,
                         [ scriptId     |-> event.scriptId,
                           url          |-> Or(Or(event.url, event.sourceURL), << >>),
                           sourceMapURL |-> Or(event.sourceMapURL, << >>) ])
  /\ UNCHANGED << config, pc, generatedVars, oi, docVars, request, redirects,
                  counters, fsVars >>

\* main: the pages are processed; ensureDir(OUTPUT_DIR); the first pass
\* starts.
StartExtraction ==
  /\ pc = "processUrl"
  /\ pc' = "extractGeneratedScripts"
  /\ gi' = 1
  /\ dirs' = dirs \cup SelfAndAncestors(pathResolve(OUTPUT_DIR, << >>))
  /\ UNCHANGED << config, registry, scriptPath, savedGenerated, oi, docVars,
                  request, redirects, counters, files >>

\* A loop head that asks for the body of every record, whatever the filter
GeneratedNextUnfiltered ==
  /\ pc = "extractGeneratedScripts"
  /\ IF gi > Len(scripts)
     THEN /\ pc' = "extractOriginalSources"
          /\ oi' = 1
          /\ UNCHANGED << gi, scriptPath >>
     ELSE /\ pc' = "getScriptSource"
          /\ scriptPath' = urlToFilesystemPath(scripts[gi].url)
          /\ UNCHANGED << gi, oi >>
  /\ UNCHANGED << config, registry, savedGenerated, docVars, request, redirects,
                  counters, fsVars >>

\* extractGeneratedScripts: the head of the loop, up to the await.
GeneratedNext ==
  /\ pc = "extractGeneratedScripts"
  /\ IF gi > Len(scripts)
     THEN /\ pc' = "extractOriginalSources"
          /\ oi' = 1
          /\ UNCHANGED << gi, scriptPath >>
     ELSE LET metadata == scripts[gi]
              path     == urlToFilesystemPath(metadata.url)
          IN  IF ~matchesFilter(path) /\ ~matchesFilter(metadata.url)
              THEN /\ gi' = gi + 1
                   /\ UNCHANGED << pc, oi, scriptPath >>
              ELSE /\ pc' = "getScriptSource"
                   /\ scriptPath' = path
                   /\ UNCHANGED << gi, oi >>
  /\ UNCHANGED << config, registry, savedGenerated, docVars, request, redirects,
                  counters, fsVars >>

\* extractGeneratedScripts: client.send resolves; the file is written; an
\* exception of the write is caught.
GeneratedRetrieved ==
  /\ pc = "getScriptSource"
  /\ \E scriptSource \in ScriptSources :
       LET destPath == safePathJoin(OUTPUT_DIR, Or(scriptPath, AnonymousJs))
           write    == WriteFile(destPath, Or(scriptSource, << >>))
       IN  IF destPath = Threw
           THEN UNCHANGED << savedGenerated, fsVars >>
           ELSE /\ files' = write.files
                /\ dirs' = write.dirs
                /\ savedGenerated' =
                     IF write.threw THEN savedGenerated ELSE savedGenerated + 1
  /\ pc' = "extractGeneratedScripts"
  /\ gi' = gi + 1
  /\ scriptPath' = << >>
  /\ UNCHANGED << config, registry, oi, docVars, request, redirects, counters >>

\* extractGeneratedScripts: client.send rejects; the script is skipped.
GeneratedRetrievalFailed ==
  /\ pc = "getScriptSource"
  /\ pc' = "extractGeneratedScripts"
  /\ gi' = gi + 1
  /\ scriptPath' = << >>
  /\ UNCHANGED << config, registry, savedGenerated, oi, docVars, request,
                  redirects, counters, fsVars >>

\* extractOriginalSources: the script is done or skipped; the tallies grow
\* by the given amounts and the loop goes on to the next record.
NextScript(noMapRef, fetchFailed, invalid) ==
  /\ pc' = "extractOriginalSources"
  /\ oi' = oi + 1
  /\ sourceMapUrl' = << >> /\ sourceMapBaseUrl' = Null
  /\ sources' = << >> /\ sourcesContent' = << >> /\ i' = 0
  /\ request' = << >> /\ redirects' = 0
  /\ skippedNoMapRef' = skippedNoMapRef + noMapRef
  /\ skippedFetchFailed' = skippedFetchFailed + fetchFailed
  /\ skippedInvalid' = skippedInvalid + invalid
  /\ UNCHANGED << savedCount, fsVars >>

\* An inner loop that counts every entry it leaves, written or not
NextSourceCountsEveryEntry(saved, newFiles, newDirs) ==
  /\ pc' = "sources"
  /\ i' = i + 1
  /\ request' = << >> /\ redirects' = 0
  /\ savedCount' = savedCount + 1
  /\ files' = newFiles /\ dirs' = newDirs
  /\ UNCHANGED << oi, sourceMapUrl, sourceMapBaseUrl, sources, sourcesContent,
                  skippedNoMapRef, skippedFetchFailed, skippedInvalid >>

\* extractOriginalSources: the inner loop goes on to the next index.
NextSource(saved, newFiles, newDirs) ==
  /\ pc' = "sources"
  /\ i' = i + 1
  /\ request' = << >> /\ redirects' = 0
  /\ savedCount' = savedCount + saved
  /\ files' = newFiles /\ dirs' = newDirs
  /\ UNCHANGED << oi, sourceMapUrl, sourceMapBaseUrl, sources, sourcesContent,
                  skippedNoMapRef, skippedFetchFailed, skippedInvalid >>

\* An exception leaves extractOriginalSources: the promise main awaits
\* rejects, nothing handles it, the run ends.
Crash(newDirs) ==
  /\ pc' = "crashed"
  /\ request' = << >> /\ redirects' = 0
  /\ dirs' = newDirs
  /\ UNCHANGED << oi, docVars, counters, files >>

\* The loop body with the filter applied to the bare normalized path only
SaveSourceBareFilter(sourceFilePath, fileContent) ==
  LET normalizedPath == normalizeSourceFilePath(sourceFilePath) IN
  IF normalizedPath = Threw THEN Crash(dirs)
  ELSE IF ~matchesFilter(normalizedPath) THEN NextSource(0, files, dirs)
  ELSE LET destPath == safePathJoin(OUTPUT_DIR, normalizedPath) IN
       IF destPath = Threw THEN Crash(dirs)
       ELSE LET write == WriteFile(destPath, fileContent) IN
            IF write.threw THEN Crash(write.dirs)
            ELSE NextSource(1, write.files, write.dirs)

\* extractOriginalSources, from "if (!fileContent) continue" to the end of
\* the loop body: normalize, filter, save.  fileContent is a Buffer here,
\* which is truthy even when it is empty.
SaveSource(sourceFilePath, fileContent) ==
  LET normalizedPath == normalizeSourceFilePath(sourceFilePath) IN
  IF normalizedPath = Threw THEN Crash(dirs)
  ELSE IF ~matchesFilter(normalizedPath)
          /\ ~matchesFilter(<< "/" >> \o normalizedPath)
  THEN NextSource(0, files, dirs)
  ELSE LET destPath == safePathJoin(OUTPUT_DIR, normalizedPath) IN
       IF destPath = Threw THEN Crash(dirs)
       ELSE LET write == WriteFile(destPath, fileContent) IN
            IF write.threw THEN Crash(write.dirs)
            ELSE NextSource(1, write.files, write.dirs)

\* extractOriginalSources after "await fetchUrl(sourceMapUrl)" settled.
SourceMapSettled(url, outcome) ==
  IF outcome.state = "rejected" THEN NextScript(0, 1, 0)
  ELSE IF JsonParseThrows(outcome.value) THEN NextScript(0, 0, 1)
  ELSE LET sourceMap == JsonParse(outcome.value)
           baseUrl   == newURL(url, Null)
       IN  IF sourceMap.isNull
           THEN /\ pc' = "crashed"
                /\ request' = << >> /\ redirects' = 0
                /\ sourceMapUrl' = url
                /\ sourceMapBaseUrl' = IF baseUrl = Threw THEN Null ELSE baseUrl
                /\ UNCHANGED << oi, sources, sourcesContent, i, counters, fsVars >>
           ELSE /\ pc' = "sources"
                /\ sourceMapUrl' = url
                /\ sourceMapBaseUrl' = IF baseUrl = Threw THEN Null ELSE baseUrl
                /\ sources' = sourceMap.sources
                /\ sourcesContent' = sourceMap.sourcesContent
                /\ i' = 1
                /\ request' = << >> /\ redirects' = 0
                /\ UNCHANGED << oi, counters, fsVars >>

\* extractOriginalSources after "await fetchUrl(absoluteUrl)" settled.
SourceSettled(outcome) ==
  IF outcome.state = "rejected" THEN NextSource(0, files, dirs)
  ELSE SaveSource(Or(sources[i], << >>), outcome.value)

\* A fetchUrl call whose promise is not awaited: the request is started and
\* the loop goes on.
AwaitNotAwaited(url, start, awaitPc) ==
  IF start.state = "pending"
  THEN /\ request' = start.value
       /\ redirects' = 0
       /\ IF awaitPc = "fetchSourceMap"
          THEN /\ pc' = "extractOriginalSources"
               /\ oi' = oi + 1
               /\ UNCHANGED << docVars, counters, fsVars >>
          ELSE /\ pc' = "sources"
               /\ i' = i + 1
               /\ UNCHANGED << oi, sourceMapUrl, sourceMapBaseUrl, sources,
                               sourcesContent, counters, fsVars >>
  ELSE IF awaitPc = "fetchSourceMap" THEN SourceMapSettled(url, start)
  ELSE SourceSettled(start)

\* A fetchUrl call was made: its promise is settled at once, or main waits
\* at the given await for the response.
Await(url, start, awaitPc) ==
  IF start.state = "pending"
  THEN /\ pc' = awaitPc
       /\ request' = start.value
       /\ redirects' = 0
       /\ IF awaitPc = "fetchSourceMap"
          THEN /\ sourceMapUrl' = url
               /\ UNCHANGED << oi, sourceMapBaseUrl, sources, sourcesContent, i,
                               counters, fsVars >>
          ELSE UNCHANGED << oi, docVars, counters, fsVars >>
  ELSE IF awaitPc = "fetchSourceMap" THEN SourceMapSettled(url, start)
  ELSE SourceSettled(start)

\* extractOriginalSources: the head of the outer loop, up to the await.
OriginalNext ==
  /\ pc = "extractOriginalSources"
  /\ oi <= Len(scripts)
  /\ LET metadata           == scripts[oi]
         scriptUrl          == Or(metadata.url, << >>)
         sourceMapReference == Or(metadata.sourceMapURL, << >>)
         resolved           == resolveSourceMapUrl(sourceMapReference, scriptUrl)
     IN  IF Falsy(sourceMapReference) THEN NextScript(1, 0, 0)
         ELSE IF Falsy(resolved) THEN NextScript(0, 1, 0)
         ELSE Await(resolved, FetchStart(resolved), "fetchSourceMap")
  /\ UNCHANGED << config, registry, generatedVars >>

\* A return that empties the registry it was given
OriginalReturnClearsRegistry ==
  /\ pc = "extractOriginalSources"
  /\ oi > Len(scripts)
  /\ pc' = "done"
  /\ scripts' = << >>
  /\ UNCHANGED << config, events, observed, generatedVars, oi, docVars, request,
                  redirects, counters, fsVars >>

\* extractOriginalSources returns; main closes the browser and ends.
OriginalReturn ==
  /\ pc = "extractOriginalSources"
  /\ oi > Len(scripts)
  /\ pc' = "done"
  /\ UNCHANGED << config, registry, generatedVars, oi, docVars, request,
                  redirects, counters, fsVars >>

\* "if (embedded)": content that is there but empty counts as missing
IsTruthyContent(embedded) == ~Falsy(embedded)

\* "if (sourcesContent[i] != null)": the entry has embedded content
HasEmbeddedContent(embedded) == embedded # Null /\ embedded # Undefined

\* extractOriginalSources: the head of the inner loop, up to the await or
\* the end of the loop body.
SourceNext ==
  /\ pc = "sources"
  /\ IF i > Len(sources) THEN NextScript(0, 0, 0)
     ELSE LET sourceFilePath == Or(sources[i], << >>)
              embedded == IF i <= Len(sourcesContent) THEN sourcesContent[i]
                          ELSE Undefined
          IN  IF HasEmbeddedContent(embedded)
              THEN SaveSource(sourceFilePath, JSString(embedded))
              ELSE IF sourceMapBaseUrl # Null
              THEN LET absoluteUrl == newURL(sourceFilePath, sourceMapBaseUrl) IN
                   IF absoluteUrl = Threw THEN NextSource(0, files, dirs)
                   ELSE Await(absoluteUrl, FetchStart(absoluteUrl), "fetchSource")
              ELSE NextSource(0, files, dirs)
  /\ UNCHANGED << config, registry, generatedVars >>

\* What the await of the request in flight continues with
Settled(outcome) ==
  IF pc = "fetchSourceMap" THEN SourceMapSettled(sourceMapUrl, outcome)
  ELSE SourceSettled(outcome)

\* fetchUrl: the response has status 200; the body, one of those the server
\* has for a sourcemap or for a source, is collected.
Respond200Of(mapBodies, sourceBodies) ==
  /\ pc \in { "fetchSourceMap", "fetchSource" }
  /\ \E body \in (IF pc = "fetchSourceMap" THEN mapBodies ELSE sourceBodies) :
       Settled([ state |-> "resolved", value |-> body ])
  /\ UNCHANGED << config, registry, generatedVars >>

Respond200 == Respond200Of(MapBodies, SourceBodies)

\* fetchUrl: the response has another status (a 3xx without Location
\* included), or the request emits an error.
RespondFailure ==
  /\ pc \in { "fetchSourceMap", "fetchSource" }
  /\ Settled([ state |-> "rejected", value |-> << >> ])
  /\ UNCHANGED << config, registry, generatedVars >>

\* fetchUrl: the response is a redirect with a Location header, one of
\* those the server sends; the target is fetched.  new URL throws inside the
\* response callback, where nothing catches it.  The code counts no
\* redirects: the counter of the model stops at MaxRedirects, the redirects
\* do not.
RespondRedirectTo(locations) ==
  /\ pc \in { "fetchSourceMap", "fetchSource" }
  /\ \E location \in locations :
       LET target == newURL(location, request) IN
       IF target = Threw THEN Crash(dirs)
       ELSE LET start == FetchStart(target) IN
            IF start.state = "pending"
            THEN /\ request' = start.value
                 /\ redirects' =
                      IF redirects < MaxRedirects THEN redirects + 1 ELSE redirects
                 /\ UNCHANGED << pc, oi, docVars, counters, fsVars >>
            ELSE Settled(start)
  /\ UNCHANGED << config, registry, generatedVars >>

RespondRedirect == RespondRedirectTo(Locations)

Next ==
  \/ ScriptParsed
  \/ StartExtraction
  \/ GeneratedNext
  \/ GeneratedRetrieved
  \/ GeneratedRetrievalFailed
  \/ OriginalNext
  \/ OriginalReturn
  \/ SourceNext
  \/ Respond200
  \/ RespondFailure
  \/ RespondRedirect

Spec == Init /\ [][Next]_vars

\* The calls of the utility functions and the runs together
InitAll == InitPath \/ Init

NextAll == NextPath \/ Next

SpecAll == InitAll /\ [][NextAll]_vars

\* ------------------------------------------------------------------------
\* One script with a sourcemap of two entries, on a server that has both
\* the sourcemap and the source that is not embedded
\* ------------------------------------------------------------------------

\* The script, its sourcemap and the source the sourcemap does not embed
ScenarioScriptUrl == << "https:", "/", "/", "cdn.test", "/", "app.js" >>
ScenarioMapUrl == << "https:", "/", "/", "cdn.test", "/", "app.js.map" >>
ScenarioSourceUrl == << "https:", "/", "/", "cdn.test", "/", "b.js" >>

ScenarioDocument ==
  Document(<< << ".", ".", "/", "shared", "/", "a.js" >>, << "b.js" >> >>,
           << << "content-A" >>, Null >>)

ScenarioScript ==
  [ scriptId |-> 1, url |-> ScenarioScriptUrl, sourceMapURL |-> << "app.js.map" >> ]

\* A script of the same page that has no sourcemap
InlineScript == [ scriptId |-> 2, url |-> << >>, sourceMapURL |-> << >> ]

\* The registries of the scenario: the script alone, or with the other one
ScenarioRegistries ==
  { << ScenarioScript >>, << ScenarioScript, InlineScript >>,
    << InlineScript, ScenarioScript >> }

\* The filter lists that keep every path
KeepAllFilterLists == { << >>, << << "/" >> >>, << << >> >> }

InitScenario ==
  /\ fn = "none" /\ arg = << >> /\ base = << >> /\ ret = << >>
  /\ PATH_FILTERS \in KeepAllFilterLists
  /\ scripts \in ScenarioRegistries
  /\ events = Len(scripts)
  /\ observed = NoEvent
  /\ pc = "processUrl"
  /\ gi = 0 /\ scriptPath = << >> /\ oi = 0 /\ i = 0
  /\ sourceMapUrl = << >> /\ sourceMapBaseUrl = Null
  /\ sources = << >> /\ sourcesContent = << >>
  /\ request = << >> /\ redirects = 0
  /\ savedGenerated = 0
  /\ savedCount = 0 /\ skippedNoMapRef = 0
  /\ skippedFetchFailed = 0 /\ skippedInvalid = 0
  /\ files = << >> /\ dirs = { }

\* The server answers with the sourcemap and with the source.
ScenarioRespond200 ==
  Respond200Of({ JsonText(ScenarioDocument) }, { << "content-B" >> })

NextScenario ==
  \/ StartExtraction
  \/ GeneratedNext
  \/ GeneratedRetrieved
  \/ GeneratedRetrievalFailed
  \/ OriginalNext
  \/ OriginalReturn
  \/ SourceNext
  \/ ScenarioRespond200
  \/ RespondRedirect

SpecScenario == InitScenario /\ [][NextScenario]_vars

\* ------------------------------------------------------------------------
\* The scenario on a server that may also fail and that has two pages
\* redirecting to each other, with responses that always arrive
\* ------------------------------------------------------------------------

\* The Location headers of two pages that redirect to each other
LoopLocations == { << "/", "moved" >>, << "/", "back" >> }

RespondRedirectLoop == RespondRedirectTo(LoopLocations)

\* The steps main takes by itself
MainStep ==
  \/ StartExtraction
  \/ GeneratedNext
  \/ OriginalNext
  \/ OriginalReturn
  \/ SourceNext

\* The answers of the browser to Debugger.getScriptSource
RetrievalStep == GeneratedRetrieved \/ GeneratedRetrievalFailed

\* The responses of the server
ResponseStep == RespondFailure \/ RespondRedirectLoop \/ ScenarioRespond200

NextFair == MainStep \/ RetrievalStep \/ ResponseStep

\* Fair scheduling of the network responses: a request in flight gets a
\* response.
SpecFair ==
  /\ InitScenario
  /\ [][NextFair]_vars
  /\ WF_vars(ResponseStep)

\* ------------------------------------------------------------------------
\* Properties of the path functions
\* ------------------------------------------------------------------------

\* The non-empty segments of a "/"-separated path
RECURSIVE NonEmpty(_)
NonEmpty(segs) ==
  IF segs = << >> THEN << >>
  ELSE IF Head(segs) = << >> THEN NonEmpty(Tail(segs))
  ELSE << Head(segs) >> \o NonEmpty(Tail(segs))

PathSegments(p) == NonEmpty(SplitOn(p, {"/"}))

\* p is b or lies below b: p has no "." or ".." segment left to resolve and
\* its segments begin with those of b.
IsUnder(p, b) ==
  LET ps == PathSegments(p)
      bs == PathSegments(b)
  IN  /\ \A k \in 1 .. Len(ps) : ps[k] # Dot /\ ps[k] # DotDot
      /\ Len(ps) >= Len(bs)
      /\ SubSeq(ps, 1, Len(bs)) = bs

IsStrictlyUnder(p, b) ==
  IsUnder(p, b) /\ Len(PathSegments(p)) > Len(PathSegments(b))

\* How many segments of segs equal seg
RECURSIVE Count(_, _)
Count(segs, seg) ==
  IF segs = << >> THEN 0
  ELSE (IF Head(segs) = seg THEN 1 ELSE 0) + Count(Tail(segs), seg)

\* How many ".." of parts have no real segment before them left to cancel:
\* depth counts the real segments not yet cancelled.
RECURSIVE UncancelledAscents(_, _)
UncancelledAscents(parts, depth) ==
  IF parts = << >> THEN 0
  ELSE LET part == Head(parts) IN
       IF part = DotDot
       THEN IF depth > 0 THEN UncancelledAscents(Tail(parts), depth - 1)
            ELSE 1 + UncancelledAscents(Tail(parts), 0)
       ELSE IF part # Dot /\ part # << >>
       THEN UncancelledAscents(Tail(parts), depth + 1)
       ELSE UncancelledAscents(Tail(parts), depth)

\* C4: sanitizePath emits one "_up_" for every ".." that has no real
\* segment to cancel and never cancels an emitted "_up_", so
\* sanitizePath("../../../etc/passwd") is "_up_/_up_/_up_/etc/passwd".
C4_UpMarkerPerUncancelledAscent ==
  (fn = "sanitizePath" /\ IsString(arg)) =>
    /\ Count(SplitOn(ret, {"/"}), UpMarker)
         = UncancelledAscents(SplitOn(arg, {"/", "\\"}), 0)
    /\ arg = EtcPasswd =>
         ret = << "_up_", "/", "_up_", "/", "_up_", "/", "etc", "/", "passwd" >>

\* C5 as stated: whenever safePathJoin returns, the path is a strict
\* descendant of the base, never the base itself.
C5_AlwaysStrictDescendant ==
  (fn = "safePathJoin" /\ ret # Threw) =>
    /\ ret # pathResolve(base, << >>)
    /\ IsStrictlyUnder(ret, pathResolve(base, << >>))

\* A path still begins with something normalizeSourceFilePath strips.
HasResidualPrefix(p) ==
  \/ StartsWith(p, WebpackScheme)
  \/ StartsWith(p, RollupScheme)
  \/ StartsWith(p, FileScheme)
  \/ StartsWith(p, HttpScheme)
  \/ StartsWith(p, HttpsScheme)
  \/ StartsWith(p, << ".", "/" >>)

\* C6 as stated: a second application of normalizeSourceFilePath changes
\* nothing, for every source path.
C6_IdempotentEverywhere ==
  (fn = "normalizeSourceFilePath" /\ ret # Threw) =>
    normalizeSourceFilePath(ret) = ret

\* C6 as amended: the output of normalizeSourceFilePath has no leading
\* slash, and it is a fixed point whenever it begins with none of the
\* prefixes the function strips (webpack://, rollup://, file://, ./,
\* http://, https://).
C6_IdempotentOnceNormalized ==
  (fn = "normalizeSourceFilePath" /\ ret # Threw) =>
    /\ ret # << >>
    /\ Head(ret) # "/"
    /\ ~HasResidualPrefix(ret) => normalizeSourceFilePath(ret) = ret

\* A nested prefix was stripped down to a path that is a fixed point.
C6_Witness ==
  /\ fn = "normalizeSourceFilePath"
  /\ arg = << ".", "/", "/", "a" >>
  /\ ret = << "a" >>
  /\ normalizeSourceFilePath(ret) = ret

\* C7: a source path that is empty or ends in "/" once its prefixes are
\* stripped gets the default filename appended: the result does not end in
\* "/" and its last segment is index.txt.
C7_DirectoryGetsIndexTxt ==
  (/\ fn = "normalizeSourceFilePath"
   /\ IsString(arg)
   /\ LET stripped == StripPrefixes(arg)
      IN  stripped = << >> \/ stripped[Len(stripped)] = "/") =>
    /\ ret[Len(ret)] # "/"
    /\ LET segs == SplitOn(ret, {"/"}) IN segs[Len(segs)] = IndexTxt

\* C8: urlToFilesystemPath maps webpack://./<rest> to webpack/<rest>;
\* webpack://./src/index.js gives webpack/src/index.js.
C8_WebpackDotSlashDropped ==
  (/\ fn = "urlToFilesystemPath"
   /\ StartsWith(arg, WebpackScheme \o << ".", "/" >>)) =>
    /\ ret = << "webpack", "/" >> \o StripQueryAndFragment(Drop(arg, 5))
    /\ arg = WebpackSrcIndex =>
         ret = << "webpack", "/", "src", "/", "index.js" >>

\* What is left of a URL string once an http(s) scheme and the query or
\* fragment are gone is empty.
OnlySchemeQueryOrFragment(url) ==
  \/ url = << >>
  \/ url \in {HttpScheme, HttpsScheme}
  \/ Head(url) \in {"?", "#"}
  \/ \E p \in {HttpScheme, HttpsScheme} :
       StartsWith(url, p) /\ Len(url) > 3 /\ url[4] \in {"?", "#"}

\* C9: urlToFilesystemPath never returns the empty string; an absent or
\* empty input, and an input that is only an http(s) scheme, a query or a
\* fragment, give anonymous.js.
C9_NeverEmpty ==
  fn = "urlToFilesystemPath" =>
    /\ ret # << >>
    /\ (Falsy(arg) \/ OnlySchemeQueryOrFragment(arg)) => ret = AnonymousJs

\* urlToFilesystemPath fell back to anonymous.js for an input that is not
\* empty.
C9_Witness ==
  /\ fn = "urlToFilesystemPath"
  /\ arg = << "https:", "/", "/", "?", "a" >>
  /\ ret = AnonymousJs

\* ------------------------------------------------------------------------
\* Properties of the run
\* ------------------------------------------------------------------------

\* The output root as the run resolves it
OutputRoot == pathResolve(OUTPUT_DIR, << >>)

\* C1: for every base directory and every input string, a path safePathJoin
\* returns lies inside the base; and every file a run has written lies
\* under the output root.
C1_NeverOutsideBase ==
  /\ (fn = "safePathJoin" /\ ret # Threw) =>
       IsUnder(ret, pathResolve(base, << >>))
  /\ \A f \in DOMAIN files : IsUnder(f, OutputRoot)

\* safePathJoin was given ../../../etc/passwd and returned a path below the
\* base.
C1_Witness ==
  /\ fn = "safePathJoin"
  /\ arg = EtcPasswd
  /\ base = << "/", "srv", "/", "out" >>
  /\ ret = << "/", "srv", "/", "out", "/", "_up_", "/", "etc", "/", "passwd" >>

\* C2: whatever happens to one item (a sourcemap that parses to null, a
\* source entry that is not a string, a write that fails), no exception
\* leaves the extraction functions.
C2_NoExceptionLeavesExtraction == pc # "crashed"

\* The inner loop of extractOriginalSources is at an entry whose embedded
\* content is there and not null.
AtEmbeddedEntry ==
  /\ pc = "sources"
  /\ i <= Len(sources)
  /\ i <= Len(sourcesContent)
  /\ sourcesContent[i] # Null

\* This step wrote one file with the given content and left the others.
Wrote(content) ==
  /\ savedCount' = savedCount + 1
  /\ \E f \in DOMAIN files' :
       /\ files'[f] = content
       /\ \A g \in DOMAIN files' \ { f } : g \in DOMAIN files /\ files'[g] = files[g]
       /\ DOMAIN files \subseteq DOMAIN files'

\* This step wrote nothing.
WroteNothing == files' = files /\ savedCount' = savedCount

\* C3: at an entry whose embedded content is there and not null, the empty
\* string included, no fetch is started, and what is written, if anything,
\* is the embedded content.
C3_EmbeddedContentIsNeverFetched ==
  [][AtEmbeddedEntry =>
       /\ pc' # "fetchSource"
       /\ request' = << >>
       /\ Wrote(JSString(sourcesContent[i])) \/ WroteNothing]_vars

\* The empty embedded content of an entry was written, with a base URL at
\* hand to fetch from.
C3_Witness ==
  /\ pc = "sources"
  /\ i = 2
  /\ sources = << << "src", "/", "util.js" >> >>
  /\ sourcesContent = << << >> >>
  /\ sourceMapBaseUrl # Null
  /\ savedCount = 1
  /\ (OutputRoot \o << "/", "src", "/", "util.js" >>) \in DOMAIN files
  /\ files[OutputRoot \o << "/", "src", "/", "util.js" >>] = << >>

\* The filter list is empty, or some filter is a substring of the path or
\* of the path prefixed with "/".
FilterAccepts(p) ==
  \/ Len(PATH_FILTERS) = 0
  \/ \E k \in 1 .. Len(PATH_FILTERS) :
       \/ Includes(p, PATH_FILTERS[k])
       \/ Includes(<< "/" >> \o p, PATH_FILTERS[k])

ScenarioFileA == OutputRoot \o << "/", "_up_", "/", "shared", "/", "a.js" >>
ScenarioFileB == OutputRoot \o << "/", "b.js" >>

\* What extractGeneratedScripts may have written before
ScenarioGeneratedFiles ==
  { OutputRoot \o << "/", "cdn.test", "/", "app.js" >>,
    OutputRoot \o << "/", "anonymous.js" >> }

\* C11: in the scenario extractOriginalSources writes exactly two files,
\* _up_/shared/a.js with content-A and b.js with content-B, starts one
\* source fetch, for https://cdn.test/b.js at the second entry, and
\* returns a saved count of 2.
C11_ScenarioWritesTwoFiles ==
  /\ [](pc = "done" =>
          /\ savedCount = 2
          /\ { ScenarioFileA, ScenarioFileB } \subseteq DOMAIN files
          /\ files[ScenarioFileA] = << "content-A" >>
          /\ files[ScenarioFileB] = << "content-B" >>
          /\ DOMAIN files \subseteq
               { ScenarioFileA, ScenarioFileB } \cup ScenarioGeneratedFiles)
  /\ [](pc \in { "sources", "fetchSource" } => sourceMapUrl = ScenarioMapUrl)
  /\ [](pc = "fetchSource" => sources[i] = << "b.js" >>)
  /\ [][(pc' = "fetchSource" /\ pc # "fetchSource") =>
          /\ pc = "sources"
          /\ request' = ScenarioSourceUrl
          /\ ScenarioFileB \notin DOMAIN files]_vars
  /\ [][(pc = "fetchSource" /\ pc' # "fetchSource") =>
          ScenarioFileB \in DOMAIN files']_vars

\* The scenario has run to its end beside a script without a sourcemap.
C11_Witness ==
  /\ pc = "done"
  /\ Len(scripts) = 2
  /\ savedCount = 2
  /\ ScenarioFileB \in DOMAIN files

\* C12: under fair scheduling of the network responses every fetchUrl call
\* settles, whatever the server answers, redirects to pages that redirect
\* included: main does not stay for ever at the await of a request.
C12_EveryFetchSettles ==
  (pc \in { "fetchSourceMap", "fetchSource" })
    ~> (pc \notin { "fetchSourceMap", "fetchSource" })

\* C13: resolveSourceMapUrl has three outcomes and never throws: a reference
\* that looks absolute is returned unchanged; otherwise, with a script URL
\* that is an http(s) URL, the reference resolved against it, or null when
\* that fails; otherwise the reference unchanged.
C13_ThreeOutcomes ==
  fn = "resolveSourceMapUrl" =>
    LET scriptUrlObj == newURL(base, Null)
        isHttp       == scriptUrlObj # Threw /\ IsHttpUrl(scriptUrlObj)
        resolved     == newURL(arg, scriptUrlObj)
    IN  /\ ret # Threw
        /\ LooksAbsolute(arg) => ret = arg
        /\ ~LooksAbsolute(arg) /\ isHttp =>
             ret = IF resolved = Threw THEN Null ELSE resolved
        /\ ~LooksAbsolute(arg) /\ ~isHttp => ret = arg

\* C14: fetchUrl resolves with the body only for status 200; a 3xx status
\* with a Location header makes it fetch the Location resolved against the
\* requested URL and settle with that fetch; every other status rejects; a
\* malformed URL rejects; nothing is thrown.
C14_StatusHandling ==
  fn = "fetchUrl" =>
    LET isRedirect == ret.statusCode >= 300 /\ ret.statusCode < 400 /\ ~Falsy(base)
    IN  /\ ret.outcome # "throws"
        /\ (ret.outcome = "resolved" /\ ret.statusCode # 0) <=> ret.statusCode = 200
        /\ isRedirect =>
             /\ ret.outcome = "follows"
             /\ ret.value = newURL(base, newURL(arg, Null))
        /\ (ret.statusCode \notin { 0, 200 } /\ ~isRedirect) => ret.outcome = "rejected"
        /\ (Head(arg) # "data:" /\ newURL(arg, Null) = Threw) =>
             ret.outcome = "rejected"

\* Where the generated script at hand, and the source entry at hand, go
GeneratedDest == safePathJoin(OUTPUT_DIR, Or(scriptPath, AnonymousJs))

SourceDest ==
  safePathJoin(OUTPUT_DIR, normalizeSourceFilePath(Or(sources[i], << >>)))

\* The source entry at hand passes the filter and its destination holds a
\* file already.
SourceDestHoldsFile ==
  /\ i <= Len(sources)
  /\ IsString(Or(sources[i], << >>))
  /\ FilterAccepts(normalizeSourceFilePath(Or(sources[i], << >>)))
  /\ SourceDest \in DOMAIN files

\* C15: a write to a destination that already holds a file replaces its
\* content and leaves the other files alone, so the last item written to a
\* path decides its content; the write is counted, it is neither skipped
\* nor an error; the generated scripts are written before the sources.
C15_OverwriteAlways ==
  [][/\ (GeneratedRetrieved /\ GeneratedDest \in DOMAIN files) =>
          /\ \E scriptSource \in ScriptSources :
               files' = Put(files, GeneratedDest, Or(scriptSource, << >>))
          /\ savedGenerated' = savedGenerated + 1
     /\ (AtEmbeddedEntry /\ SourceDestHoldsFile) =>
          /\ files' = Put(files, SourceDest, JSString(sourcesContent[i]))
          /\ savedCount' = savedCount + 1
          /\ pc' = "sources"
     /\ (pc = "fetchSource" /\ Respond200 /\ SourceDestHoldsFile) =>
          /\ \E body \in SourceBodies : files' = Put(files, SourceDest, body)
          /\ savedCount' = savedCount + 1
          /\ pc' = "sources"
     /\ savedGenerated' # savedGenerated => (oi = 0 /\ savedCount = 0)
     /\ savedCount' # savedCount => oi >= 1]_vars

\* Two entries of one sourcemap went to the same path: the fetched content
\* of the second replaced the embedded content of the first.
C15_Witness ==
  /\ pc = "sources"
  /\ i = 3
  /\ sources = << SrcUtil, SrcUtil >>
  /\ sourcesContent = << << "A" >>, Null >>
  /\ savedCount = 2
  /\ files[OutputRoot \o << "/" >> \o SrcUtil] = << "B" >>

\* The sourcemap at hand came in a data: URL.
FromDataUrl == sourceMapUrl # << >> /\ Head(sourceMapUrl) = "data:"

\* C16: for a sourcemap in a data: URL no request is made for any source
\* entry, and an entry without embedded content is skipped without a write,
\* also when the entry is an absolute http(s) URL.
C16_DataUrlNeverFetches ==
  /\ [](FromDataUrl => (pc # "fetchSource" /\ request = << >>))
  /\ [][(FromDataUrl /\ pc = "sources" /\ i <= Len(sources) /\ ~AtEmbeddedEntry) =>
          (WroteNothing /\ pc' = "sources" /\ i' = i + 1)]_vars

\* C17: for every base directory and every input, sanitizePath returns
\* without throwing a path that has no "..", "." or empty segment, and
\* safePathJoin never throws the 'Unsafe path' error.
C17_ErrorBranchUnreachable ==
  /\ fn = "sanitizePath" =>
       /\ ret # Threw
       /\ ret # << >> =>
            \A k \in 1 .. Len(SplitOn(ret, {"/"})) :
              SplitOn(ret, {"/"})[k] \notin { Dot, DotDot, << >> }
  /\ fn = "safePathJoin" => ret # Threw

\* The record at hand is left with this tally, and only this one, one higher.
SkippedAs(tally) ==
  /\ oi' = oi + 1
  /\ pc' = "extractOriginalSources"
  /\ skippedNoMapRef' = skippedNoMapRef + (IF tally = "noMapRef" THEN 1 ELSE 0)
  /\ skippedFetchFailed' = skippedFetchFailed + (IF tally = "fetchFailed" THEN 1 ELSE 0)
  /\ skippedInvalid' = skippedInvalid + (IF tally = "invalid" THEN 1 ELSE 0)

\* The tallies and the record at hand stay as they are.
SameRecord ==
  /\ oi' = oi
  /\ UNCHANGED << skippedNoMapRef, skippedFetchFailed, skippedInvalid >>

\* C18: every script record takes exactly one of four outcomes: no
\* reference (skippedNoMapRef + 1, no request), reference not resolved or
\* sourcemap not fetched (skippedFetchFailed + 1), sourcemap not parsed
\* (skippedInvalid + 1), or its entries are processed and no tally changes;
\* at the end every record has been iterated and the tallies count at most
\* one each.
C18_TalliesPartition ==
  /\ [](pc = "done" =>
          /\ oi = Len(scripts) + 1
          /\ skippedNoMapRef + skippedFetchFailed + skippedInvalid <= Len(scripts))
  /\ [][/\ (pc = "extractOriginalSources" /\ oi <= Len(scripts)) =>
             IF Falsy(scripts[oi].sourceMapURL)
             THEN SkippedAs("noMapRef") /\ request' = << >>
             ELSE \/ SkippedAs("fetchFailed")
                  \/ SkippedAs("invalid")
                  \/ SameRecord /\ pc' \in { "fetchSourceMap", "sources" }
        /\ pc = "fetchSourceMap" =>
             \/ SkippedAs("fetchFailed")
             \/ SkippedAs("invalid")
             \/ SameRecord /\ pc' \in { "fetchSourceMap", "sources" }
        /\ (pc = "fetchSourceMap" /\ RespondFailure) => SkippedAs("fetchFailed")
        /\ pc \in { "sources", "fetchSource" } =>
             /\ UNCHANGED << skippedNoMapRef, skippedFetchFailed, skippedInvalid >>
             /\ oi' # oi => (pc = "sources" /\ i > Len(sources) /\ oi' = oi + 1)
        /\ (pc \notin { "extractOriginalSources", "fetchSourceMap", "sources",
                         "fetchSource" }
              \/ (pc = "extractOriginalSources" /\ oi > Len(scripts))) =>
             UNCHANGED << skippedNoMapRef, skippedFetchFailed, skippedInvalid >>]_vars

\* C19: the records of the registry stay where their scriptId was first
\* observed; the source pass takes the records in that order, one after the
\* other, and the entries of a sourcemap by increasing index; the sourcemap
\* that is fetched is the one of the record at hand and the file that is
\* written is the one of the entry at hand.
C19_ProcessingOrder ==
  [][/\ Len(scripts') >= Len(scripts)
     /\ \A k \in 1 .. Len(scripts) : scripts'[k].scriptId = scripts[k].scriptId
     /\ oi' # oi => oi' = oi + 1
     /\ gi' # gi => gi' = gi + 1
     /\ i' # i =>
          \/ i' = i + 1 /\ oi' = oi
          \/ i' = 1 /\ i = 0 /\ oi' = oi /\ pc' = "sources"
          \/ i' = 0 /\ oi' = oi + 1
     /\ (pc # "fetchSourceMap" /\ pc' = "fetchSourceMap") =>
          /\ pc = "extractOriginalSources"
          /\ sourceMapUrl' =
               resolveSourceMapUrl(scripts[oi].sourceMapURL, scripts[oi].url)
     /\ (pc # "fetchSource" /\ pc' = "fetchSource") =>
          /\ pc = "sources"
          /\ request' = newURL(Or(sources[i], << >>), sourceMapBaseUrl)
     /\ savedCount' # savedCount =>
          /\ i' = i + 1
          /\ SourceDest \in DOMAIN files'
          /\ \A f \in DOMAIN files \ { SourceDest } :
               f \in DOMAIN files' /\ files'[f] = files[f]]_vars

\* A scriptId was observed again, the registry holds two records and the
\* run has processed both.
C19_Witness ==
  /\ pc = "done"
  /\ events = 3
  /\ Len(scripts) = 2
  /\ oi = 3

\* C20: a request is outstanding only while main waits for it at its
\* await, so never two at a time and never with a script retrieval; a
\* request starts when none is outstanding or as the redirect of the one
\* that was; the sourcemap of the next record is not requested before the
\* entries of the record at hand are all done.
C20_StrictlySequential ==
  /\ [](/\ request # << >> <=> pc \in { "fetchSourceMap", "fetchSource" }
        /\ pc = "getScriptSource" => request = << >>
        /\ pc \in { "extractOriginalSources", "fetchSourceMap" } =>
             (i = 0 /\ sources = << >>))
  /\ [][/\ (request' # request /\ request' # << >>) =>
             \/ request = << >> /\ pc \in { "extractOriginalSources", "sources" }
             \/ pc' = pc /\ oi' = oi /\ i' = i
        /\ (oi' # oi /\ pc \in { "sources", "fetchSource" }) =>
             (pc = "sources" /\ i > Len(sources))
        /\ (pc \in { "sources", "fetchSource" } /\ i' # i) =>
             \/ i' = i + 1 /\ pc' = "sources" /\ request' = << >>
             \/ i' = 0 /\ i > Len(sources)]_vars

\* The sourcemap of the second record is being fetched after an entry of
\* the first was written.
C20_Witness ==
  /\ pc = "fetchSourceMap"
  /\ oi = 2
  /\ savedCount >= 1
  /\ request # << >>

\* No two records of the registry have the same scriptId.
OneRecordPerScriptId ==
  \A a, b \in 1 .. Len(scripts) :
    scripts[a].scriptId = scripts[b].scriptId => a = b

\* This step recorded the event under the given url: the registry holds the
\* record of the event, the records of the other scriptIds are as before,
\* and the registry grew by one exactly if the scriptId was new.
Recorded(event, url) ==
  /\ \E k \in 1 .. Len(scripts') :
       scripts'[k] = [ scriptId     |-> event.scriptId,
                       url          |-> url,
                       sourceMapURL |-> Or(event.sourceMapURL, << >>) ]
  /\ \A k \in 1 .. Len(scripts) :
       scripts[k].scriptId # event.scriptId =>
         \E m \in 1 .. Len(scripts') : scripts'[m] = scripts[k]
  /\ Len(scripts') =
       Len(scripts)
         + (IF \E k \in 1 .. Len(scripts) : scripts[k].scriptId = event.scriptId
            THEN 0 ELSE 1)

\* C21 as stated: the registry holds one record per scriptId observed, the
\* record carries the url and the sourceMapURL of the latest event of that
\* scriptId, a missing field as the empty string, and no record is ever
\* deleted.
C21_LatestUrlAndSourceMapURL ==
  /\ []OneRecordPerScriptId
  /\ [][/\ Len(scripts') >= Len(scripts)
        /\ events' # events =>
             Recorded(observed', Or(observed'.url, << >>))]_vars

\* C21: the same, with the url the handler stores: the url of the latest
\* event, its sourceURL when the url is missing or empty, the empty string
\* when both are.
C21_LatestUrlOrSourceURL ==
  /\ []OneRecordPerScriptId
  /\ [][/\ Len(scripts') >= Len(scripts)
        /\ events' # events =>
             Recorded(observed', Or(Or(observed'.url, observed'.sourceURL), << >>))]_vars

\* A scriptId was observed twice and its record has the sourceURL of the
\* event as url.
C21_Witness ==
  /\ events = 2
  /\ Len(scripts) = 1
  /\ observed.url = << >>
  /\ scripts[1].url = << "vm.js" >>
  /\ scripts[1].sourceMapURL = DataMapUrl

\* C22: only the scriptParsed handler adds or changes a record of the
\* registry: a step that changes the registry is the delivery of an event
\* and changes nothing of the passes, and a step of main (the end of
\* processUrl, extractGeneratedScripts, extractOriginalSources and the
\* responses they await) leaves the registry as it is.
C22_SingleWriterRegistry ==
  [][/\ scripts' # scripts =>
          /\ events' = events + 1
          /\ observed' \in Events
          /\ UNCHANGED << config, pc, generatedVars, oi, docVars, request,
                          redirects, counters, fsVars >>
     /\ << pc, generatedVars, oi, docVars, request, redirects, counters,
           fsVars >>' # << pc, generatedVars, oi, docVars, request, redirects,
                           counters, fsVars >> =>
          UNCHANGED << scripts, events, observed >>]_vars

\* Both passes have gone through a registry of two records, which is still
\* there.
C22_Witness ==
  /\ pc = "done"
  /\ Len(scripts) = 2
  /\ gi = 3
  /\ oi = 3
  /\ savedGenerated >= 1

\* C23: both passes process the records the registry held when the
\* extraction started: once it has started no record is added, no record
\* that extractOriginalSources has still to take changes, and at the end
\* both passes have iterated the same number of records.
C23_StableInputAcrossPasses ==
  /\ [](pc = "done" => gi = oi)
  /\ [][pc # "processUrl" =>
          /\ Len(scripts') = Len(scripts)
          /\ \A k \in 1 .. Len(scripts) : k > oi => scripts'[k] = scripts[k]]_vars

\* The entry at hand is left without a write and without a change of any
\* counter.
SilentlySkipped ==
  /\ pc' = "sources"
  /\ i' = i + 1
  /\ files' = files
  /\ UNCHANGED counters

\* C24: savedCount grows by one with each write of the source pass and
\* only then, so it is the number of writes; an entry without content
\* (none embedded, and no base URL or a failed fetch) and an entry the
\* filter rejects are left without a write and without a change of
\* savedCount, skippedNoMapRef, skippedFetchFailed or skippedInvalid.
C24_CountsWritesOnly ==
  /\ [](Cardinality(DOMAIN files) <= savedGenerated + savedCount)
  /\ [][/\ savedCount' # savedCount =>
             /\ pc \in { "sources", "fetchSource" }
             /\ savedCount' = savedCount + 1
             /\ SourceDest \in DOMAIN files'
             /\ \A f \in DOMAIN files \ { SourceDest } :
                  f \in DOMAIN files' /\ files'[f] = files[f]
        /\ (pc \in { "sources", "fetchSource" } /\ files' # files) =>
             savedCount' = savedCount + 1
        /\ (pc = "sources" /\ i <= Len(sources) /\ ~AtEmbeddedEntry
              /\ sourceMapBaseUrl = Null) => SilentlySkipped
        /\ (pc = "sources" /\ i <= Len(sources) /\ ~AtEmbeddedEntry) =>
             SilentlySkipped \/ pc' = "fetchSource"
        /\ (pc = "fetchSource" /\ RespondFailure) => SilentlySkipped
        /\ ((AtEmbeddedEntry \/ (pc = "fetchSource" /\ pc' # pc))
              /\ IsString(Or(sources[i], << >>))
              /\ ~FilterAccepts(normalizeSourceFilePath(Or(sources[i], << >>)))) =>
             SilentlySkipped]_vars

\* The first entry was written and counted, the second, without content,
\* was left: the file still has the content of the first.
C24_Witness ==
  /\ pc = "sources"
  /\ i = 3
  /\ sources = << SrcUtil, SrcUtil >>
  /\ sourcesContent = << << "A" >>, Null >>
  /\ savedCount = 1
  /\ files[OutputRoot \o << "/" >> \o SrcUtil] = << "A" >>

\* The filter list is empty, or some filter is a substring of the path of
\* the script or of its url as it is.
FilterAcceptsScript(url) ==
  \/ Len(PATH_FILTERS) = 0
  \/ \E k \in 1 .. Len(PATH_FILTERS) :
       \/ Includes(urlToFilesystemPath(url), PATH_FILTERS[k])
       \/ Includes(url, PATH_FILTERS[k])

\* C25: extractGeneratedScripts asks for the body of a record exactly if
\* the filter accepts its path or its url; a record the filter rejects and
\* a record whose body cannot be retrieved are left without a write and
\* without a count, and the pass goes on with the next record; the count
\* grows by one with each write and only then.
C25_GeneratedPass ==
  /\ [](oi = 0 => Cardinality(DOMAIN files) <= savedGenerated)
  /\ [][/\ (pc = "extractGeneratedScripts" /\ gi <= Len(scripts)) =>
             IF FilterAcceptsScript(scripts[gi].url)
             THEN pc' = "getScriptSource" /\ gi' = gi
             ELSE /\ pc' = "extractGeneratedScripts" /\ gi' = gi + 1
                  /\ files' = files /\ savedGenerated' = savedGenerated
        /\ (pc = "getScriptSource" /\ GeneratedRetrievalFailed) =>
             /\ files' = files /\ savedGenerated' = savedGenerated
             /\ pc' = "extractGeneratedScripts" /\ gi' = gi + 1
        /\ savedGenerated' # savedGenerated =>
             /\ pc = "getScriptSource"
             /\ savedGenerated' = savedGenerated + 1
             /\ GeneratedDest \in DOMAIN files'
             /\ \A f \in DOMAIN files \ { GeneratedDest } :
                  f \in DOMAIN files' /\ files'[f] = files[f]
        /\ (pc = "getScriptSource" /\ files' # files) =>
             savedGenerated' = savedGenerated + 1
        /\ (pc = "getScriptSource" /\ pc' # pc) =>
             (pc' = "extractGeneratedScripts" /\ gi' = gi + 1)]_vars

\* Of two records the filter accepts, the body of one could not be
\* retrieved and the other was written and counted.
C25_Witness ==
  /\ PATH_FILTERS = << >>
  /\ Len(scripts) = 2
  /\ pc = "extractGeneratedScripts"
  /\ gi = 3
  /\ oi = 0
  /\ savedGenerated = 1
  /\ Cardinality(DOMAIN files) = 1

====
